---- MODULE Spec2Model ----
(***************************************************************************)
(* Model of the DevContext MCP server (src/mcp/server.js): a read-only     *)
(* store of categorised documents under contextsPath and the handlers     *)
(* that enumerate it, resolve a pattern by name, and search it.            *)
(*                                                                         *)
(* Strings are sequences of one-character strings, so that endsWith,      *)
(* includes, replace and toLowerCase are computed on the characters.      *)
(***************************************************************************)
EXTENDS Integers, Sequences, FiniteSets, TLC

VARIABLES store, contextsPath, last, calls, previous

vars == <<store, contextsPath, last, calls, previous>>

----------------------------------------------------------------------------
(* Bounds of the explored stores and inputs *)

\* entries of the whole store: root entries and files together
MaxEntries == 4

\* lines of a template document
MaxLines == 3

----------------------------------------------------------------------------
(* JavaScript string primitives *)

\* String.prototype.endsWith
endsWith(s, suffix) ==
    /\ Len(s) >= Len(suffix)
    /\ SubSeq(s, Len(s) - Len(suffix) + 1, Len(s)) = suffix

\* String.prototype.startsWith
startsWith(s, prefix) ==
    /\ Len(s) >= Len(prefix)
    /\ SubSeq(s, 1, Len(prefix)) = prefix

\* String.prototype.includes
includes(s, sub) ==
    \E i \in 0..(Len(s) - Len(sub)) : SubSeq(s, i + 1, i + Len(sub)) = sub

UpperCase == <<"A", "B", "C", "D", "E", "F", "G", "H", "I", "J", "K", "L", "M", "N", "O", "P", "Q", "R", "S", "T", "U", "V", "W", "X", "Y", "Z">>
LowerCase == <<"a", "b", "c", "d", "e", "f", "g", "h", "i", "j", "k", "l", "m", "n", "o", "p", "q", "r", "s", "t", "u", "v", "w", "x", "y", "z">>

\* the lower-case letter of each upper-case letter
LowerOf == [c \in { UpperCase[k] : k \in 1..Len(UpperCase) } |->
              LowerCase[CHOOSE k \in 1..Len(UpperCase) : UpperCase[k] = c]]

lowerChar(c) == IF c \in DOMAIN LowerOf THEN LowerOf[c] ELSE c

\* String.prototype.toLowerCase
toLowerCase(s) == [i \in 1..Len(s) |-> lowerChar(s[i])]

DotMd == <<".", "m", "d">>
DotJson == <<".", "j", "s", "o", "n">>

\* file.replace(/\.(md|json)$/, '')
stripExt(file) ==
    IF endsWith(file, DotMd) THEN SubSeq(file, 1, Len(file) - 3)
    ELSE IF endsWith(file, DotJson) THEN SubSeq(file, 1, Len(file) - 5)
    ELSE file

\* file.endsWith('.md') || file.endsWith('.json')
isRecognized(file) == endsWith(file, DotMd) \/ endsWith(file, DotJson)

\* mimeTypeOf without the test of the extension
mimeTypeAlwaysMarkdown(file) == "text/markdown"

\* file.endsWith('.md') ? 'text/markdown' : 'application/json'
mimeTypeOf(file) == IF endsWith(file, DotMd) THEN "text/markdown" ELSE "application/json"

\* 'devcontext://'
Scheme == <<"d", "e", "v", "c", "o", "n", "t", "e", "x", "t", ":", "/", "/">>

\* 'Context pattern for '
DescrPrefix == <<"C", "o", "n", "t", "e", "x", "t", " ", "p", "a", "t", "t", "e", "r", "n", " ", "f", "o", "r", " ">>

----------------------------------------------------------------------------
(* The store: the directory tree under contextsPath.                       *)
(* A root entry is a directory ("dir"), a plain file ("file"), an entry    *)
(* whose stat fails ("broken", e.g. a dangling link) or a directory whose  *)
(* listing fails ("locked", e.g. no read permission). A file of a category *)
(* is readable with a content, or its read fails.                          *)

\* names of the root entries, in the order the root lists them
CatNames == << <<"a", "p", "i">>, <<"u", "x">>, <<"d", "b">>, <<"q">>, <<"r">> >>

\* 'ui.md', 'gui.md', 'ui.json', 'ui.txt'
FileNames ==
    { <<"u", "i", ".", "m", "d">>,
      <<"g", "u", "i", ".", "m", "d">>,
      <<"u", "i", ".", "j", "s", "o", "n">>,
      <<"u", "i", ".", "t", "x", "t">> }

\* 'Ab', 'ba'
Contents == { <<"A", "b">>, <<"b", "a">> }

FileEntries ==
    [name : FileNames, readable : {TRUE}, content : Contents]
        \cup [name : FileNames, readable : {FALSE}, content : {<<>>}]

RECURSIVE FileLists(_)
\* the listings of exactly n entries with distinct names, in every order
FileLists(n) ==
    IF n = 0 THEN { <<>> }
    ELSE UNION { { Append(fs, f) :
                     f \in { g \in FileEntries :
                               \A i \in 1..Len(fs) : fs[i].name # g.name } } :
                 fs \in FileLists(n - 1) }

\* one root entry that holds at most budget files
RootVariants(budget) ==
    [kind : {"file", "broken", "locked"}, files : { <<>> }]
        \cup [kind : {"dir"}, files : UNION { FileLists(m) : m \in 0..budget }]

RECURSIVE RootLists(_, _)
\* the listings of exactly k root entries that hold at most budget files together
RootLists(k, budget) ==
    IF k = 0 THEN { <<>> }
    ELSE UNION { { <<e>> \o rest : rest \in RootLists(k - 1, budget - Len(e.files)) } :
                 e \in RootVariants(budget) }

\* the root entries of a listing, named in listing order
Named(t) ==
    [i \in 1..Len(t) |-> [name |-> CatNames[i], kind |-> t[i].kind, files |-> t[i].files]]

\* the stores of at most MaxEntries entries whose root can be listed, and the
\* small stores whose root listing fails (listable = FALSE)
Stores ==
    { [listable |-> TRUE, entries |-> Named(t)] :
        t \in UNION { RootLists(n, MaxEntries - n) : n \in 0..MaxEntries } }
      \cup { [listable |-> FALSE, entries |-> Named(t)] :
               t \in UNION { RootLists(n, 1) : n \in 0..1 } }

----------------------------------------------------------------------------
(* fs/promises on the store: each call returns ok = FALSE where the real   *)
(* call rejects.                                                           *)

NamesOf(entries) == [i \in 1..Len(entries) |-> entries[i].name]

\* the first index of seq whose name is name, 0 if none
IndexOfName(seq, name) ==
    LET ix == { i \in 1..Len(seq) : seq[i].name = name }
    IN  IF ix = {} THEN 0 ELSE CHOOSE i \in ix : \A j \in ix : i <= j

\* fs.readdir(this.contextsPath)
readdirRoot(st) ==
    IF st.listable THEN [ok |-> TRUE, names |-> NamesOf(st.entries)]
    ELSE [ok |-> FALSE, names |-> <<>>]

\* statCategory whose isDirectory holds of every entry that stat finds
statEverythingIsDirectory(st, category) ==
    LET i == IndexOfName(st.entries, category)
    IN  IF i = 0 \/ st.entries[i].kind = "broken"
        THEN [ok |-> FALSE, isDirectory |-> FALSE]
        ELSE [ok |-> TRUE, isDirectory |-> TRUE]

\* fs.stat(path.join(this.contextsPath, category))
statCategory(st, category) ==
    LET i == IndexOfName(st.entries, category)
    IN  IF i = 0 \/ st.entries[i].kind = "broken"
        THEN [ok |-> FALSE, isDirectory |-> FALSE]
        ELSE [ok |-> TRUE, isDirectory |-> st.entries[i].kind \in {"dir", "locked"}]

\* fs.readdir(path.join(this.contextsPath, category))
readdirCategory(st, category) ==
    LET i == IndexOfName(st.entries, category)
    IN  IF i = 0 \/ st.entries[i].kind # "dir"
        THEN [ok |-> FALSE, names |-> <<>>]
        ELSE [ok |-> TRUE, names |-> NamesOf(st.entries[i].files)]

\* fs.readFile(path.join(this.contextsPath, category, file), 'utf-8')
readFile(st, category, file) ==
    LET i == IndexOfName(st.entries, category)
        j == IF i = 0 \/ st.entries[i].kind # "dir" THEN 0
             ELSE IndexOfName(st.entries[i].files, file)
    IN  IF j = 0 \/ ~st.entries[i].files[j].readable
        THEN [ok |-> FALSE, content |-> <<>>]
        ELSE [ok |-> TRUE, content |-> st.entries[i].files[j].content]

----------------------------------------------------------------------------
(* resources/list: the ListResourcesRequestSchema handler *)

\* the object pushed for one file
resourceOf(category, file) ==
    [uri |-> Scheme \o category \o <<"/">> \o file,
     name |-> category \o <<"/">> \o file,
     description |-> DescrPrefix \o category \o <<" ", "-", " ">> \o stripExt(file),
     mimeType |-> mimeTypeOf(file)]

\* resourcesOfFiles without the test of the extension
resourcesOfAllFiles(category, files) ==
    [i \in 1..Len(files) |-> resourceOf(category, files[i])]

\* for (const file of files): one resource per recognized file, in order
resourcesOfFiles(category, files) ==
    LET kept == SelectSeq(files, isRecognized)
    IN  [i \in 1..Len(kept) |-> resourceOf(category, kept[i])]

RECURSIVE listLoop(_, _, _, _)
\* for (const category of categories), from index i on; thrown is set where
\* stat or readdir rejects, which leaves the loop with what was pushed so far
listLoop(st, categories, i, resources) ==
    IF i > Len(categories) THEN [thrown |-> FALSE, resources |-> resources]
    ELSE LET category == categories[i]
             stat == statCategory(st, category)
             files == readdirCategory(st, category)
         IN  IF ~stat.ok THEN [thrown |-> TRUE, resources |-> resources]
             ELSE IF ~stat.isDirectory THEN listLoop(st, categories, i + 1, resources)
             ELSE IF ~files.ok THEN [thrown |-> TRUE, resources |-> resources]
             ELSE listLoop(st, categories, i + 1,
                           resources \o resourcesOfFiles(category, files.names))

\* the body of the try block
listTry(st) ==
    LET categories == readdirRoot(st)
    IN  IF ~categories.ok THEN [thrown |-> TRUE, resources |-> <<>>]
        ELSE listLoop(st, categories.names, 1, <<>>)

\* listResources with a catch that throws again
listResourcesRethrow(st) ==
    IF listTry(st).thrown THEN [status |-> "throw", error |-> "Failed to list resources"]
    ELSE [status |-> "return", resources |-> listTry(st).resources]

\* the handler: the catch logs and the handler returns { resources }
listResources(st) ==
    [status |-> "return", resources |-> listTry(st).resources]

----------------------------------------------------------------------------
(* get-pattern: DevContextServer.getPattern *)

\* the predicate of files.find: exact name or similar
matchesPattern(file, pattern) ==
    stripExt(file) = pattern \/ includes(file, pattern)

\* findMatchingFile that keeps the last file that satisfies the predicate
findLastMatchingFile(files, pattern) ==
    LET ix == { i \in 1..Len(files) : matchesPattern(files[i], pattern) }
    IN  IF ix = {} THEN 0 ELSE CHOOSE i \in ix : \A k \in ix : i >= k

\* Array.prototype.find with that predicate: the index of the first file
\* that satisfies it, 0 for undefined
findMatchingFile(files, pattern) ==
    LET ix == { i \in 1..Len(files) : matchesPattern(files[i], pattern) }
    IN  IF ix = {} THEN 0 ELSE CHOOSE i \in ix : \A k \in ix : i <= k

\* files.map(f => f.replace(/\.(md|json)$/, '')), the names of the not-found text
availablePatterns(files) == [i \in 1..Len(files) |-> stripExt(files[i])]

\* getPattern that takes a category it cannot list for an empty one
getPatternMissingAsEmpty(st, category, pattern) ==
    LET files == readdirCategory(st, category)
        m == findMatchingFile(files.names, pattern)
        content == readFile(st, category, files.names[m])
    IN  IF m = 0
        THEN [status |-> "return", outcome |-> "not found in category",
              pattern |-> pattern, category |-> category,
              available |-> availablePatterns(files.names)]
        ELSE IF ~content.ok THEN [status |-> "throw", error |-> "Failed to get pattern"]
        ELSE [status |-> "return", outcome |-> "content", text |-> content.content]

getPattern(st, category, pattern) ==
    LET files == readdirCategory(st, category)
        m == findMatchingFile(files.names, pattern)
        content == readFile(st, category, files.names[m])
    IN  IF ~files.ok THEN [status |-> "throw", error |-> "Failed to get pattern"]
        ELSE IF m = 0
        THEN [status |-> "return", outcome |-> "not found in category",
              pattern |-> pattern, category |-> category,
              available |-> availablePatterns(files.names)]
        ELSE IF ~content.ok THEN [status |-> "throw", error |-> "Failed to get pattern"]
        ELSE [status |-> "return", outcome |-> "content", text |-> content.content]

----------------------------------------------------------------------------
(* list-patterns: DevContextServer.listPatterns *)

listPatterns(st, category) ==
    LET files == readdirCategory(st, category)
        kept == SelectSeq(files.names, isRecognized)
    IN  IF ~files.ok THEN [status |-> "throw", error |-> "Failed to list patterns"]
        ELSE [status |-> "return", category |-> category,
              patterns |-> [i \in 1..Len(kept) |-> stripExt(kept[i])]]

----------------------------------------------------------------------------
(* search-patterns: DevContextServer.searchPatterns *)

\* contentMatches without the two toLowerCase
contentMatchesCaseSensitive(content, query) == includes(content, query)

\* content.toLowerCase().includes(query.toLowerCase())
contentMatches(content, query) == includes(toLowerCase(content), toLowerCase(query))

RECURSIVE searchFiles(_, _, _, _, _, _)
\* for (const file of files), from index j on; a rejected readFile leaves
\* both loops
searchFiles(st, query, category, files, j, results) ==
    IF j > Len(files) THEN [thrown |-> FALSE, results |-> results]
    ELSE LET file == files[j]
             content == readFile(st, category, file)
         IN  IF ~isRecognized(file)
             THEN searchFiles(st, query, category, files, j + 1, results)
             ELSE IF ~content.ok THEN [thrown |-> TRUE, results |-> results]
             ELSE IF contentMatches(content.content, query)
             THEN searchFiles(st, query, category, files, j + 1,
                              Append(results, [category |-> category,
                                               pattern |-> stripExt(file),
                                               file |-> file]))
             ELSE searchFiles(st, query, category, files, j + 1, results)

RECURSIVE searchLoop(_, _, _, _, _)
\* for (const category of categories), from index i on
searchLoop(st, query, categories, i, results) ==
    IF i > Len(categories) THEN [thrown |-> FALSE, results |-> results]
    ELSE LET category == categories[i]
             stat == statCategory(st, category)
             files == readdirCategory(st, category)
             inner == searchFiles(st, query, category, files.names, 1, results)
         IN  IF ~stat.ok THEN [thrown |-> TRUE, results |-> results]
             ELSE IF ~stat.isDirectory THEN searchLoop(st, query, categories, i + 1, results)
             ELSE IF ~files.ok THEN [thrown |-> TRUE, results |-> results]
             ELSE IF inner.thrown THEN inner
             ELSE searchLoop(st, query, categories, i + 1, inner.results)

\* the body of the try block up to the end of the loops
searchTry(st, query) ==
    LET categories == readdirRoot(st)
    IN  IF ~categories.ok THEN [thrown |-> TRUE, results |-> <<>>]
        ELSE searchLoop(st, query, categories.names, 1, <<>>)

\* hitsOf with the lines in the opposite order
hitsOfReversed(results) ==
    [i \in 1..Len(results) |->
        [category |-> results[Len(results) + 1 - i].category,
         pattern |-> results[Len(results) + 1 - i].pattern]]

\* the lines '- category/pattern' of the result text
hitsOf(results) ==
    [i \in 1..Len(results) |->
        [category |-> results[i].category, pattern |-> results[i].pattern]]

searchPatterns(st, query) ==
    LET found == searchTry(st, query)
    IN  IF found.thrown THEN [status |-> "throw", error |-> "Failed to search patterns"]
        ELSE IF Len(found.results) = 0
        THEN [status |-> "return", outcome |-> "no patterns found",
              query |-> query, hits |-> <<>>]
        ELSE [status |-> "return", outcome |-> "patterns containing",
              query |-> query, hits |-> hitsOf(found.results)]

----------------------------------------------------------------------------
(* resources/read: the ReadResourceRequestSchema handler *)

\* the index of the first occurrence of sub in s, 0 if none
indexOf(s, sub) ==
    LET ix == { i \in 1..(Len(s) - Len(sub) + 1) : SubSeq(s, i, i + Len(sub) - 1) = sub }
    IN  IF ix = {} THEN 0 ELSE CHOOSE i \in ix : \A k \in ix : i <= k

\* removeFirst that leaves s as it is
removeNothing(s, sub) == s

\* String.prototype.replace(sub, ''): the first occurrence of sub removed
removeFirst(s, sub) ==
    LET i == indexOf(s, sub)
    IN  IF i = 0 THEN s
        ELSE SubSeq(s, 1, i - 1) \o SubSeq(s, i + Len(sub), Len(s))

RECURSIVE splitOn(_, _)
\* String.prototype.split(sep) for a separator of one character
splitOn(s, sep) ==
    LET i == indexOf(s, <<sep>>)
    IN  IF i = 0 THEN <<s>>
        ELSE <<SubSeq(s, 1, i - 1)>> \o splitOn(SubSeq(s, i + 1, Len(s)), sep)

\* a segment that path.join keeps: not empty, not '.'
isSegment(seg) == seg # <<>> /\ seg # <<".">>

RECURSIVE normalize(_, _)
\* path.join's normalisation: a '..' segment removes the segment before it;
\* with none before it, it stays and leads above contextsPath
normalize(segs, acc) ==
    IF segs = <<>> THEN acc
    ELSE IF Head(segs) = <<".", ".">> /\ acc # <<>> /\ acc[Len(acc)] # <<".", ".">>
    THEN normalize(Tail(segs), SubSeq(acc, 1, Len(acc) - 1))
    ELSE normalize(Tail(segs), Append(acc, Head(segs)))

\* path.join(this.contextsPath, resourcePath): the segments relative to
\* contextsPath
pathSegments(resourcePath) ==
    normalize(SelectSeq(splitOn(resourcePath, "/"), isSegment), <<>>)

\* the file next to the contexts directory: 'README.md'
ParentFile == <<"R", "E", "A", "D", "M", "E", ".", "m", "d">>

\* the content of that file
ParentFileContent == <<"o">>

\* the content of a plain file of the store root
RootFileContent == <<"r">>

\* fs.readFile(fullPath, 'utf-8') for a path of segments below contextsPath;
\* code is the code of the rejection
readPath(st, segs) ==
    LET i == IF Len(segs) >= 1 THEN IndexOfName(st.entries, segs[1]) ELSE 0
        j == IF i # 0 /\ Len(segs) >= 2
             THEN IndexOfName(st.entries[i].files, segs[2]) ELSE 0
        failed(code) == [ok |-> FALSE, content |-> <<>>, code |-> code]
    IN  IF Len(segs) = 0 THEN failed("EISDIR")
        ELSE IF segs[1] = <<".", ".">>
        THEN IF segs = << <<".", ".">>, ParentFile >>
             THEN [ok |-> TRUE, content |-> ParentFileContent, code |-> "none"]
             ELSE IF Len(segs) = 1 THEN failed("EISDIR")
             ELSE failed("ENOENT")
        ELSE IF i = 0 \/ st.entries[i].kind = "broken" THEN failed("ENOENT")
        ELSE IF Len(segs) = 1
        THEN IF st.entries[i].kind = "file"
             THEN [ok |-> TRUE, content |-> RootFileContent, code |-> "none"]
             ELSE failed("EISDIR")
        ELSE IF st.entries[i].kind = "file" THEN failed("ENOTDIR")
        ELSE IF st.entries[i].kind = "locked" THEN failed("EACCES")
        ELSE IF j = 0 THEN failed("ENOENT")
        ELSE IF Len(segs) > 2 THEN failed("ENOTDIR")
        ELSE IF ~st.entries[i].files[j].readable THEN failed("EACCES")
        ELSE [ok |-> TRUE, content |-> st.entries[i].files[j].content, code |-> "none"]

\* readResourceTry whose catch drops error.message
readResourceTryNoMessage(st, uri) ==
    LET resourcePath == removeFirst(uri, Scheme)
        fullPath == pathSegments(resourcePath)
        content == readPath(st, fullPath)
    IN  IF ~content.ok
        THEN [status |-> "throw", error |-> "Failed to read resource",
              message |-> "none", accessed |-> <<fullPath>>]
        ELSE [status |-> "return",
              contents |-> << [uri |-> uri,
                               mimeType |-> mimeTypeOf(resourcePath),
                               text |-> content.content] >>,
              accessed |-> <<fullPath>>]

\* the handler after the test of the prefix: accessed lists the paths read
readResourceTry(st, uri) ==
    LET resourcePath == removeFirst(uri, Scheme)
        fullPath == pathSegments(resourcePath)
        content == readPath(st, fullPath)
    IN  IF ~content.ok
        THEN [status |-> "throw", error |-> "Failed to read resource",
              message |-> content.code, accessed |-> <<fullPath>>]
        ELSE [status |-> "return",
              contents |-> << [uri |-> uri,
                               mimeType |-> mimeTypeOf(resourcePath),
                               text |-> content.content] >>,
              accessed |-> <<fullPath>>]

\* readResource that reads before it tests the prefix
readResourceReadFirst(st, uri) ==
    IF ~startsWith(uri, Scheme)
    THEN [status |-> "throw", error |-> "Invalid URI", message |-> uri,
          accessed |-> readResourceTry(st, uri).accessed]
    ELSE readResourceTry(st, uri)

\* readResource whose catch returns an empty text
readResourceEmptyOnFailure(st, uri) ==
    IF ~startsWith(uri, Scheme)
    THEN [status |-> "throw", error |-> "Invalid URI", message |-> uri, accessed |-> <<>>]
    ELSE IF readResourceTry(st, uri).status = "throw"
    THEN [status |-> "return",
          contents |-> << [uri |-> uri, mimeType |-> mimeTypeOf(removeFirst(uri, Scheme)),
                           text |-> <<>>] >>,
          accessed |-> readResourceTry(st, uri).accessed]
    ELSE readResourceTry(st, uri)

readResource(st, uri) ==
    IF ~startsWith(uri, Scheme)
    THEN [status |-> "throw", error |-> "Invalid URI", message |-> uri, accessed |-> <<>>]
    ELSE readResourceTry(st, uri)

----------------------------------------------------------------------------
(* get-project-template: getProjectTemplate *)

\* String.prototype.replace(sub, by) with a string pattern: the first
\* occurrence of sub only
replaceFirst(s, sub, by) ==
    LET i == indexOf(s, sub)
    IN  IF i = 0 THEN s
        ELSE SubSeq(s, 1, i - 1) \o by \o SubSeq(s, i + Len(sub), Len(s))

RECURSIVE joinLines(_)
\* Array.prototype.join('\n')
joinLines(lines) ==
    IF lines = <<>> THEN <<>>
    ELSE IF Len(lines) = 1 THEN lines[1]
    ELSE lines[1] \o <<"\n">> \o joinLines(Tail(lines))

\* the keys of templates: 'nextjs', 'vite-react', 'express-api'
TemplateStacks == { <<"n", "e", "x", "t", "j", "s">>,
                    <<"v", "i", "t", "e", "-", "r", "e", "a", "c", "t">>,
                    <<"e", "x", "p", "r", "e", "s", "s", "-", "a", "p", "i">> }

\* 'naming/project-structure.md'
TemplateFile == <<"n", "a", "m", "i", "n", "g", "/", "p", "r", "o", "j", "e", "c", "t", "-", "s", "t", "r", "u", "c", "t", "u", "r", "e", ".", "m", "d">>

\* templates[stack]; <<>> is undefined
templates(stack) == IF stack \in TemplateStacks THEN TemplateFile ELSE <<>>

\* '## '
HeadingMarker == <<"#", "#", " ">>

\* line.toLowerCase().includes(stack.replace('-', ' '))
lineHasStack(line, stack) ==
    includes(toLowerCase(line), replaceFirst(stack, <<"-">>, <<" ">>))

\* lines.findIndex(line => ...), counted from 1; 0 is JavaScript's -1
findStackSectionStart(lines, stack) ==
    LET ix == { i \in 1..Len(lines) : lineHasStack(lines[i], stack) }
    IN  IF ix = {} THEN 0 ELSE CHOOSE i \in ix : \A k \in ix : i <= k

\* the loop that looks for the next heading of another section, counted
\* from 1: Len(lines) + 1 is JavaScript's lines.length
findStackSectionEnd(lines, stack, stackSectionStart) ==
    LET ix == { i \in (stackSectionStart + 1)..Len(lines) :
                  /\ startsWith(lines[i], HeadingMarker)
                  /\ ~lineHasStack(lines[i], stack) }
    IN  IF ix = {} THEN Len(lines) + 1 ELSE CHOOSE i \in ix : \A k \in ix : i <= k

\* extractSection whose fallback returns the first line only
extractSectionFirstLine(content, stack) ==
    LET lines == splitOn(content, "\n")
        stackSectionStart == findStackSectionStart(lines, stack)
        stackSectionEnd == findStackSectionEnd(lines, stack, stackSectionStart)
    IN  IF stackSectionStart = 0 THEN lines[1]
        ELSE joinLines(SubSeq(lines, stackSectionStart, stackSectionEnd - 1))

\* extractSection that leaves out the first line of the section
extractSectionBelowFirstLine(content, stack) ==
    LET lines == splitOn(content, "\n")
        stackSectionStart == findStackSectionStart(lines, stack)
        stackSectionEnd == findStackSectionEnd(lines, stack, stackSectionStart)
    IN  IF stackSectionStart = 0 THEN content
        ELSE joinLines(SubSeq(lines, stackSectionStart + 1, stackSectionEnd - 1))

\* the handler after the file was read
extractSection(content, stack) ==
    LET lines == splitOn(content, "\n")
        stackSectionStart == findStackSectionStart(lines, stack)
        stackSectionEnd == findStackSectionEnd(lines, stack, stackSectionStart)
    IN  IF stackSectionStart = 0 THEN content
        ELSE joinLines(SubSeq(lines, stackSectionStart, stackSectionEnd - 1))

getProjectTemplate(st, stack) ==
    LET templateFile == templates(stack)
        content == readPath(st, pathSegments(templateFile))
    IN  IF templateFile = <<>>
        THEN [status |-> "throw", error |-> "Template for stack not found"]
        ELSE IF ~content.ok
        THEN [status |-> "throw", error |-> "Failed to get project template"]
        ELSE [status |-> "return", text |-> extractSection(content.content, stack)]

\* the lines of the explored template documents
TemplateLines ==
    { <<"#", "#", " ", "N", "e", "x", "t", "J", "S">>,
      <<"#", "#", " ", "V", "i", "t", "e", " ", "R", "e", "a", "c", "t">>,
      <<"#", "#", " ", "v", "i", "t", "e", "-", "r", "e", "a", "c", "t">>,
      <<"#", "#", " ", "e", "x", "p", "r", "e", "s", "s", "-", "a", "p", "i">>,
      <<"#", "#", " ", "O", "t", "h", "e", "r">>,
      <<"m", "y", " ", "n", "e", "x", "t", "j", "s", " ", "a", "p", "p">>,
      <<"s", "r", "c", "/">> }

\* the documents of at most MaxLines lines
TemplateDocs == UNION { [1..n -> TemplateLines] : n \in 0..MaxLines }

\* the stores whose only category is naming, with project-structure.md
TemplateStores ==
    { [listable |-> TRUE,
       entries |-> << [name |-> <<"n", "a", "m", "i", "n", "g">>, kind |-> "dir",
                       files |-> << [name |-> <<"p", "r", "o", "j", "e", "c", "t", "-", "s", "t", "r", "u", "c", "t", "u", "r", "e", ".", "m", "d">>,
                                     readable |-> r,
                                     content |-> joinLines(doc)] >>] >>] :
        r \in BOOLEAN, doc \in TemplateDocs }

----------------------------------------------------------------------------
(* The server: calls arrive one after another, in any order, on an         *)
(* unchanging store. last is the call being answered and what its handler *)
(* returned or threw; Respond hands the answer to the transport, after    *)
(* which the next call is taken.                                           *)

\* the category arguments of the calls: every name a root entry can have
CategoryArgs == { CatNames[i] : i \in 1..Len(CatNames) }

\* the pattern arguments: 'ui', 'gui', 'u', 'z'
PatternArgs == { <<"u", "i">>, <<"g", "u", "i">>, <<"u">>, <<"z">> }

\* the query arguments: 'a', 'B', 'aB', 'Ba', 'aa'
QueryArgs == { <<"a">>, <<"B">>, <<"a", "B">>, <<"B", "a">>, <<"a", "a">> }

\* the uri arguments: the files of two categories and the categories themselves
\* with the prefix; uris with '..' segments: '../README.md',
\* 'api/../../README.md' and 'api/../api/ui.md' after the prefix; and uris
\* that lack the prefix: 'api/ui.md', 'devcontext:/api/ui.md' and 'x' followed
\* by a well-formed uri
UriArgs ==
    { Scheme \o c \o <<"/">> \o f :
        c \in { CatNames[1], CatNames[2] },
        f \in { <<"u", "i", ".", "m", "d">>, <<"u", "i", ".", "j", "s", "o", "n">>,
                <<"u", "i", ".", "t", "x", "t">> } }
      \cup { Scheme \o CatNames[1], Scheme \o CatNames[2] }
      \cup { Scheme \o <<".", ".", "/">> \o ParentFile,
             Scheme \o CatNames[1] \o <<"/", ".", ".", "/", ".", ".", "/">> \o ParentFile,
             Scheme \o CatNames[1] \o <<"/", ".", ".", "/">> \o CatNames[1]
                    \o <<"/", "u", "i", ".", "m", "d">> }
      \cup { CatNames[1] \o <<"/", "u", "i", ".", "m", "d">>,
             SubSeq(Scheme, 1, 12) \o CatNames[1] \o <<"/", "u", "i", ".", "m", "d">>,
             <<"x">> \o Scheme \o CatNames[1] \o <<"/", "u", "i", ".", "m", "d">> }

\* the template types of the README: 'nextjs-auth', 'express-api', 'react-spa'
ReadmeTemplateTypes == { <<"n", "e", "x", "t", "j", "s", "-", "a", "u", "t", "h">>,
                         <<"e", "x", "p", "r", "e", "s", "s", "-", "a", "p", "i">>,
                         <<"r", "e", "a", "c", "t", "-", "s", "p", "a">> }

\* the stack arguments: the keys of templates and the types of the README
StackArgs == TemplateStacks \cup ReadmeTemplateTypes

NoCall == [op |-> "none", args |-> <<>>, result |-> [status |-> "none"]]

\* a call slot with no call in flight
Idle ==
    [op |-> "none", args |-> <<>>, pc |-> "idle", categories |-> <<>>, i |-> 0,
     files |-> <<>>, j |-> 0, filePath |-> <<>>, acc |-> <<>>, accesses |-> 0,
     result |-> [status |-> "none"]]

\* the calls that can be in flight at once
Slots == { "first", "second" }

Init ==
    /\ store \in Stores
    /\ contextsPath = "contexts"
    /\ last = NoCall
    /\ calls = [s \in Slots |-> Idle]
    /\ previous = NoCall

ListResources ==
    /\ last = NoCall
    /\ last' = [op |-> "resources/list", args |-> <<>>, result |-> listResources(store)]
    /\ UNCHANGED <<store, contextsPath, calls, previous>>

\* GetPattern that answers a repeated call with the result it gave before
GetPatternCached ==
    /\ last = NoCall
    /\ \E category \in CategoryArgs, pattern \in PatternArgs :
         last' = [op |-> "get-pattern", args |-> <<category, pattern>>,
                  result |-> IF /\ previous.op = "get-pattern"
                                /\ previous.args = <<category, pattern>>
                             THEN previous.result
                             ELSE getPattern(store, category, pattern)]
    /\ UNCHANGED <<store, contextsPath, calls, previous>>

GetPattern ==
    /\ last = NoCall
    /\ \E category \in CategoryArgs, pattern \in PatternArgs :
         last' = [op |-> "get-pattern", args |-> <<category, pattern>>,
                  result |-> getPattern(store, category, pattern)]
    /\ UNCHANGED <<store, contextsPath, calls, previous>>

ListPatterns ==
    /\ last = NoCall
    /\ \E category \in CategoryArgs :
         last' = [op |-> "list-patterns", args |-> <<category>>,
                  result |-> listPatterns(store, category)]
    /\ UNCHANGED <<store, contextsPath, calls, previous>>

SearchPatterns ==
    /\ last = NoCall
    /\ \E query \in QueryArgs :
         last' = [op |-> "search-patterns", args |-> <<query>>,
                  result |-> searchPatterns(store, query)]
    /\ UNCHANGED <<store, contextsPath, calls, previous>>

\* ReadResource that records in the store that its root was read
ReadResourceMarkingStore ==
    /\ last = NoCall
    /\ \E uri \in UriArgs :
         last' = [op |-> "resources/read", args |-> <<uri>>,
                  result |-> readResource(store, uri)]
    /\ store' = [store EXCEPT !.listable = TRUE]
    /\ UNCHANGED <<contextsPath, calls, previous>>

ReadResource ==
    /\ last = NoCall
    /\ \E uri \in UriArgs :
         last' = [op |-> "resources/read", args |-> <<uri>>,
                  result |-> readResource(store, uri)]
    /\ UNCHANGED <<store, contextsPath, calls, previous>>

GetProjectTemplate ==
    /\ last = NoCall
    /\ \E stack \in StackArgs :
         last' = [op |-> "get-project-template", args |-> <<stack>>,
                  result |-> getProjectTemplate(store, stack)]
    /\ UNCHANGED <<store, contextsPath, calls, previous>>

Respond ==
    /\ last # NoCall
    /\ last' = NoCall
    /\ UNCHANGED <<store, contextsPath, calls, previous>>

Next ==
    \/ ListResources
    \/ ReadResource
    \/ GetPattern
    \/ ListPatterns
    \/ SearchPatterns
    \/ GetProjectTemplate
    \/ Respond

Spec == Init /\ [][Next]_vars

\* the server on a store that holds a template document
InitTemplate ==
    /\ store \in TemplateStores
    /\ contextsPath = "contexts"
    /\ last = NoCall
    /\ calls = [s \in Slots |-> Idle]
    /\ previous = NoCall

SpecTemplate == InitTemplate /\ [][Next]_vars

----------------------------------------------------------------------------
(* Calls in flight at once. Each handler is an async function: it runs     *)
(* without interruption up to its next await, and the steps of different   *)
(* calls interleave at the awaits. calls holds, for each call in flight,   *)
(* the await it is suspended at (pc) and the variables of its invocation.  *)

\* return or throw: the call is settled with result
finish(cs, slot, result) == [cs EXCEPT ![slot].pc = "done", ![slot].result = result]

\* the call is suspended at the await pc
await(cs, slot, pc) == [cs EXCEPT ![slot].pc = pc]

\* setFilePath that writes one variable shared by all the calls
setFilePathShared(cs, slot, filePath) ==
    [s \in DOMAIN cs |-> [cs[s] EXCEPT !.filePath = filePath]]

\* const filePath = path.join(categoryPath, file): a variable of the invocation
setFilePath(cs, slot, filePath) == [cs EXCEPT ![slot].filePath = filePath]

\* const files = await fs.readdir(categoryPath): a variable of the invocation
setFiles(cs, slot, files) == [cs EXCEPT ![slot].files = files, ![slot].j = 0]

\* push that appends to one array shared by all the calls
pushShared(cs, slot, items) ==
    [s \in DOMAIN cs |-> [cs[s] EXCEPT !.acc = @ \o items]]

\* resources.push(...) / results.push(...): an array of the invocation
push(cs, slot, items) == [cs EXCEPT ![slot].acc = @ \o items]

\* the handler is invoked and runs to its first await
startCall(cs, slot, op, args) ==
    LET started == [cs EXCEPT ![slot] = [Idle EXCEPT !.op = op, !.args = args]]
    IN  CASE op = "resources/list" -> await(started, slot, "readdir root")
          [] op = "resources/read" ->
                IF ~startsWith(args[1], Scheme)
                THEN finish(started, slot,
                            [status |-> "throw", error |-> "Invalid URI",
                             message |-> args[1], accessed |-> <<>>])
                ELSE await(setFilePath(started, slot,
                                       pathSegments(removeFirst(args[1], Scheme))),
                           slot, "readFile")
          [] op = "get-pattern" -> await(started, slot, "readdir")
          [] op = "list-patterns" -> await(started, slot, "readdir")
          [] op = "search-patterns" -> await(started, slot, "readdir root")
          [] op = "get-project-template" ->
                IF templates(args[1]) = <<>>
                THEN finish(started, slot,
                            [status |-> "throw", error |-> "Template for stack not found"])
                ELSE await(setFilePath(started, slot, pathSegments(templates(args[1]))),
                           slot, "readFile")

\* resources/list: the next iteration of for (const category of categories),
\* or the return after the loop
listNextCategory(cs, slot) ==
    LET c == cs[slot]
    IN  IF c.i + 1 > Len(c.categories)
        THEN finish(cs, slot, [status |-> "return", resources |-> c.acc])
        ELSE await([cs EXCEPT ![slot].i = c.i + 1], slot, "stat")

\* resources/list: the await the call is suspended at resolves or rejects
listResourcesStep(st, cs, slot) ==
    LET c == cs[slot]
        caught == finish(cs, slot, [status |-> "return", resources |-> c.acc])
    IN  CASE c.pc = "readdir root" ->
                LET categories == readdirRoot(st)
                IN  IF ~categories.ok THEN caught
                    ELSE listNextCategory(
                             [cs EXCEPT ![slot].categories = categories.names], slot)
          [] c.pc = "stat" ->
                LET stat == statCategory(st, c.categories[c.i])
                IN  IF ~stat.ok THEN caught
                    ELSE IF ~stat.isDirectory THEN listNextCategory(cs, slot)
                    ELSE await(cs, slot, "readdir")
          [] c.pc = "readdir" ->
                LET category == c.categories[c.i]
                    files == readdirCategory(st, category)
                IN  IF ~files.ok THEN caught
                    ELSE listNextCategory(
                             push(setFiles(cs, slot, files.names), slot,
                                  resourcesOfFiles(category, files.names)), slot)

\* resources/read: the awaited readFile of fullPath resolves or rejects
readResourceStep(st, cs, slot) ==
    LET c == cs[slot]
        uri == c.args[1]
        fullPath == c.filePath
        content == readPath(st, fullPath)
    IN  IF ~content.ok
        THEN finish(cs, slot, [status |-> "throw", error |-> "Failed to read resource",
                               message |-> content.code, accessed |-> <<fullPath>>])
        ELSE finish(cs, slot,
                    [status |-> "return",
                     contents |-> << [uri |-> uri,
                                      mimeType |-> mimeTypeOf(removeFirst(uri, Scheme)),
                                      text |-> content.content] >>,
                     accessed |-> <<fullPath>>])

\* get-pattern: the await the call is suspended at resolves or rejects
getPatternStep(st, cs, slot) ==
    LET c == cs[slot]
        category == c.args[1]
        pattern == c.args[2]
        caught == finish(cs, slot, [status |-> "throw", error |-> "Failed to get pattern"])
    IN  CASE c.pc = "readdir" ->
                LET files == readdirCategory(st, category)
                    m == findMatchingFile(files.names, pattern)
                IN  IF ~files.ok THEN caught
                    ELSE IF m = 0
                    THEN finish(cs, slot,
                                [status |-> "return", outcome |-> "not found in category",
                                 pattern |-> pattern, category |-> category,
                                 available |-> availablePatterns(files.names)])
                    ELSE await(setFilePath(setFiles(cs, slot, files.names), slot,
                                           <<category, files.names[m]>>),
                               slot, "readFile")
          [] c.pc = "readFile" ->
                LET content == readFile(st, c.filePath[1], c.filePath[2])
                IN  IF ~content.ok THEN caught
                    ELSE finish(cs, slot, [status |-> "return", outcome |-> "content",
                                           text |-> content.content])

\* list-patterns: the awaited readdir resolves or rejects
listPatternsStep(st, cs, slot) == finish(cs, slot, listPatterns(st, cs[slot].args[1]))

\* search-patterns: what follows the loops
searchReturn(cs, slot) ==
    LET c == cs[slot]
    IN  IF Len(c.acc) = 0
        THEN finish(cs, slot, [status |-> "return", outcome |-> "no patterns found",
                               query |-> c.args[1], hits |-> <<>>])
        ELSE finish(cs, slot, [status |-> "return", outcome |-> "patterns containing",
                               query |-> c.args[1], hits |-> hitsOf(c.acc)])

\* search-patterns: the next iteration of for (const category of categories)
searchNextCategory(cs, slot) ==
    LET c == cs[slot]
    IN  IF c.i + 1 > Len(c.categories) THEN searchReturn(cs, slot)
        ELSE await([cs EXCEPT ![slot].i = c.i + 1], slot, "stat")

\* search-patterns: the next iteration of for (const file of files) that
\* reaches the readFile
searchNextFile(cs, slot) ==
    LET c == cs[slot]
        ix == { k \in (c.j + 1)..Len(c.files) : isRecognized(c.files[k]) }
        next == CHOOSE k \in ix : \A m \in ix : k <= m
    IN  IF ix = {} THEN searchNextCategory(cs, slot)
        ELSE await(setFilePath([cs EXCEPT ![slot].j = next], slot,
                               <<c.categories[c.i], c.files[next]>>),
                   slot, "readFile")

\* searchPatternsStep that awaits the readFile again when it rejects
searchPatternsStepRetrying(st, cs, slot) ==
    LET c == cs[slot]
        caught == finish(cs, slot,
                         [status |-> "throw", error |-> "Failed to search patterns"])
    IN  CASE c.pc = "readdir root" ->
                LET categories == readdirRoot(st)
                IN  IF ~categories.ok THEN caught
                    ELSE searchNextCategory(
                             [cs EXCEPT ![slot].categories = categories.names], slot)
          [] c.pc = "stat" ->
                LET stat == statCategory(st, c.categories[c.i])
                IN  IF ~stat.ok THEN caught
                    ELSE IF ~stat.isDirectory THEN searchNextCategory(cs, slot)
                    ELSE await(cs, slot, "readdir")
          [] c.pc = "readdir" ->
                LET files == readdirCategory(st, c.categories[c.i])
                IN  IF ~files.ok THEN caught
                    ELSE searchNextFile(setFiles(cs, slot, files.names), slot)
          [] c.pc = "readFile" ->
                LET category == c.categories[c.i]
                    file == c.files[c.j]
                    content == readFile(st, c.filePath[1], c.filePath[2])
                IN  IF ~content.ok THEN await(cs, slot, "readFile")
                    ELSE IF contentMatches(content.content, c.args[1])
                    THEN searchNextFile(
                             push(cs, slot, << [category |-> category,
                                                pattern |-> stripExt(file),
                                                file |-> file] >>), slot)
                    ELSE searchNextFile(cs, slot)

\* search-patterns: the await the call is suspended at resolves or rejects
searchPatternsStep(st, cs, slot) ==
    LET c == cs[slot]
        caught == finish(cs, slot,
                         [status |-> "throw", error |-> "Failed to search patterns"])
    IN  CASE c.pc = "readdir root" ->
                LET categories == readdirRoot(st)
                IN  IF ~categories.ok THEN caught
                    ELSE searchNextCategory(
                             [cs EXCEPT ![slot].categories = categories.names], slot)
          [] c.pc = "stat" ->
                LET stat == statCategory(st, c.categories[c.i])
                IN  IF ~stat.ok THEN caught
                    ELSE IF ~stat.isDirectory THEN searchNextCategory(cs, slot)
                    ELSE await(cs, slot, "readdir")
          [] c.pc = "readdir" ->
                LET files == readdirCategory(st, c.categories[c.i])
                IN  IF ~files.ok THEN caught
                    ELSE searchNextFile(setFiles(cs, slot, files.names), slot)
          [] c.pc = "readFile" ->
                LET category == c.categories[c.i]
                    file == c.files[c.j]
                    content == readFile(st, c.filePath[1], c.filePath[2])
                IN  IF ~content.ok THEN caught
                    ELSE IF contentMatches(content.content, c.args[1])
                    THEN searchNextFile(
                             push(cs, slot, << [category |-> category,
                                                pattern |-> stripExt(file),
                                                file |-> file] >>), slot)
                    ELSE searchNextFile(cs, slot)

\* get-project-template: the awaited readFile resolves or rejects
getProjectTemplateStep(st, cs, slot) ==
    LET c == cs[slot]
        stack == c.args[1]
        filePath == c.filePath
        content == readPath(st, filePath)
    IN  IF ~content.ok
        THEN finish(cs, slot, [status |-> "throw", error |-> "Failed to get project template"])
        ELSE finish(cs, slot, [status |-> "return",
                               text |-> extractSection(content.content, stack)])

\* a category of the explored stores: a directory of the given files, an
\* entry whose stat fails, or a plain file
ConcurrentEntries(name) ==
    { [name |-> name, kind |-> "dir", files |-> fs] :
        fs \in { <<>>,
                 << [name |-> <<"u", "i", ".", "m", "d">>, readable |-> TRUE, content |-> <<"A", "b">>] >>,
                 << [name |-> <<"u", "i", ".", "m", "d">>, readable |-> FALSE, content |-> <<>>] >>,
                 << [name |-> <<"u", "i", ".", "m", "d">>, readable |-> TRUE, content |-> <<"A", "b">>],
                    [name |-> <<"g", "u", "i", ".", "m", "d">>, readable |-> TRUE, content |-> <<"b", "a">>] >> } }
      \cup { [name |-> name, kind |-> "broken", files |-> <<>>] }

\* the stores of two root entries, and a store that holds a template document
ConcurrentStores ==
    { [listable |-> l, entries |-> <<a, b>>] :
        l \in BOOLEAN,
        a \in ConcurrentEntries(CatNames[1]),
        b \in ConcurrentEntries(CatNames[2]) }
      \cup { t \in TemplateStores :
               /\ t.entries[1].files[1].readable
               /\ t.entries[1].files[1].content = <<"#", "#", " ", "N", "e", "x", "t", "J", "S", "\n", "s", "r", "c", "/", "\n", "#", "#", " ", "O", "t", "h", "e", "r">> }

\* the calls that arrive: tool or request, and arguments
ConcurrentCalls ==
    { [op |-> "resources/list", args |-> <<>>],
      [op |-> "resources/read", args |-> << Scheme \o CatNames[1] \o <<"/">> \o <<"u", "i", ".", "m", "d">> >>],
      [op |-> "resources/read", args |-> << CatNames[1] \o <<"/">> \o <<"u", "i", ".", "m", "d">> >>],
      [op |-> "get-pattern", args |-> << CatNames[1], <<"u", "i">> >>],
      [op |-> "get-pattern", args |-> << CatNames[1], <<"g", "u", "i">> >>],
      [op |-> "list-patterns", args |-> << CatNames[2] >>],
      [op |-> "search-patterns", args |-> << <<"a">> >>],
      [op |-> "get-project-template", args |-> << <<"n", "e", "x", "t", "j", "s">> >>],
      [op |-> "get-project-template", args |-> << <<"r", "e", "a", "c", "t", "-", "s", "p", "a">> >>] }

InitConcurrent ==
    /\ store \in ConcurrentStores
    /\ contextsPath = "contexts"
    /\ last = NoCall
    /\ calls = [s \in Slots |-> Idle]
    /\ previous = NoCall

\* a request arrives and its handler runs to its first await
StartCall ==
    \E slot \in Slots, call \in ConcurrentCalls :
        /\ calls[slot].pc = "idle"
        /\ calls' = startCall(calls, slot, call.op, call.args)
        /\ UNCHANGED <<store, contextsPath, last, previous>>

\* the call of slot is suspended in the handler of op
Suspended(slot, op) == calls[slot].op = op /\ calls[slot].pc \notin {"idle", "done"}

\* one more access to the store by the call: accesses counts the awaited
\* fs.readdir, fs.stat and fs.readFile of the invocation
access(cs, slot) == [cs EXCEPT ![slot].accesses = @ + 1]

\* the awaited access of the call settles and its handler runs to its next
\* await, return or throw
resume(st, cs, slot) ==
    CASE cs[slot].op = "resources/list" -> listResourcesStep(st, cs, slot)
      [] cs[slot].op = "resources/read" -> readResourceStep(st, cs, slot)
      [] cs[slot].op = "get-pattern" -> getPatternStep(st, cs, slot)
      [] cs[slot].op = "list-patterns" -> listPatternsStep(st, cs, slot)
      [] cs[slot].op = "search-patterns" -> searchPatternsStep(st, cs, slot)
      [] cs[slot].op = "get-project-template" -> getProjectTemplateStep(st, cs, slot)

Resume(slot) ==
    /\ calls[slot].pc \notin {"idle", "done"}
    /\ calls' = resume(store, access(calls, slot), slot)
    /\ UNCHANGED <<store, contextsPath, last, previous>>

StepListResources ==
    \E slot \in Slots : Suspended(slot, "resources/list") /\ Resume(slot)

StepReadResource ==
    \E slot \in Slots : Suspended(slot, "resources/read") /\ Resume(slot)

StepGetPattern ==
    \E slot \in Slots : Suspended(slot, "get-pattern") /\ Resume(slot)

StepListPatterns ==
    \E slot \in Slots : Suspended(slot, "list-patterns") /\ Resume(slot)

StepSearchPatterns ==
    \E slot \in Slots : Suspended(slot, "search-patterns") /\ Resume(slot)

StepGetProjectTemplate ==
    \E slot \in Slots : Suspended(slot, "get-project-template") /\ Resume(slot)

\* the settled call is handed to the transport
FinishCall ==
    \E slot \in Slots :
        /\ calls[slot].pc = "done"
        /\ calls' = [calls EXCEPT ![slot] = Idle]
        /\ UNCHANGED <<store, contextsPath, last, previous>>

NextConcurrent ==
    \/ StartCall
    \/ StepListResources
    \/ StepReadResource
    \/ StepGetPattern
    \/ StepListPatterns
    \/ StepSearchPatterns
    \/ StepGetProjectTemplate
    \/ FinishCall

SpecConcurrent == InitConcurrent /\ [][NextConcurrent]_vars

\* the call of slot is suspended at an await
Running(slot) == calls[slot].pc \notin {"idle", "done"}

\* every fs access that a call awaits settles, by resolving or by rejecting,
\* and the event loop then resumes the call: weak fairness of Resume(slot).
\* Resume(slot) counts one more access, so it changes vars whenever the call
\* is suspended, and ENABLED <<Resume(slot)>>_vars is Running(slot); the
\* condition is WF_vars(Resume(slot)) with that written out
ResumeFair(slot) == []<>~Running(slot) \/ []<><<Resume(slot)>>_vars

SpecConcurrentFair == SpecConcurrent /\ \A slot \in Slots : ResumeFair(slot)

----------------------------------------------------------------------------
(* Calls one after another on a store that is edited between them: files   *)
(* of contexts/ are added, removed and rewritten from outside the server.  *)
(* previous is the call answered before the one in last.                   *)

\* the stores that the edits lead to: the first category empty, with ui.md
\* readable or unreadable, with ui.md and gui.md, with ui.md rewritten, and
\* the store without the first category
ChangingStores ==
    { s \in ConcurrentStores :
        /\ s.listable
        /\ Len(s.entries) = 2
        /\ s.entries[1].kind = "dir"
        /\ s.entries[2] = [name |-> CatNames[2], kind |-> "dir", files |-> <<>>] }
      \cup { [listable |-> TRUE,
              entries |-> << [name |-> CatNames[1], kind |-> "dir",
                              files |-> << [name |-> <<"u", "i", ".", "m", "d">>, readable |-> TRUE,
                                            content |-> <<"b", "a">>] >>],
                             [name |-> CatNames[2], kind |-> "dir", files |-> <<>>] >>],
             [listable |-> TRUE,
              entries |-> << [name |-> CatNames[2], kind |-> "dir", files |-> <<>>] >>] }

InitChanging ==
    /\ store \in ChangingStores
    /\ contextsPath = "contexts"
    /\ last = NoCall
    /\ calls = [s \in Slots |-> Idle]
    /\ previous = NoCall

\* between two calls the files under contexts/ are edited
ChangeStore ==
    /\ last = NoCall
    /\ store' \in ChangingStores \ {store}
    /\ UNCHANGED <<contextsPath, last, calls, previous>>

\* the answer is handed to the transport; previous keeps the answered call
RespondRecorded ==
    /\ last # NoCall
    /\ previous' = last
    /\ last' = NoCall
    /\ UNCHANGED <<store, contextsPath, calls>>

NextChanging ==
    \/ ListResources
    \/ ReadResource
    \/ GetPattern
    \/ ListPatterns
    \/ SearchPatterns
    \/ GetProjectTemplate
    \/ RespondRecorded
    \/ ChangeStore

SpecChanging == InitChanging /\ [][NextChanging]_vars

----------------------------------------------------------------------------
(* Vocabulary of the properties: the store seen as categories and items,   *)
(* stated without the handlers' own helpers.                               *)

\* the index of the root entry named category, 0 if the store has none
RootIndex(category) == IndexOfName(store.entries, category)

\* category is a directory of the store whose listing succeeds
IsCategory(category) ==
    RootIndex(category) # 0 /\ store.entries[RootIndex(category)].kind = "dir"

\* the entries of a category in enumeration order
EntriesOf(category) ==
    IF IsCategory(category) THEN store.entries[RootIndex(category)].files ELSE <<>>

\* the lengths k for which name is k characters followed by .md or .json
StemLengths(name) ==
    { k \in 0..Len(name) :
        \/ SubSeq(name, 1, k) \o DotMd = name
        \/ SubSeq(name, 1, k) \o DotJson = name }

\* an item: an entry with a recognized extension
IsItem(name) == StemLengths(name) # {}

\* the filename without its .md/.json extension
NameOf(name) ==
    IF IsItem(name) THEN SubSeq(name, 1, CHOOSE k \in StemLengths(name) : TRUE) ELSE name

\* text contains sub at offset i
OccursAt(text, sub, i) ==
    /\ i + Len(sub) <= Len(text)
    /\ \A k \in 1..Len(sub) : text[i + k] = sub[k]

Contains(text, sub) == \E i \in 0..Len(text) : OccursAt(text, sub, i)

\* text contains sub, letters compared without regard to case
ContainsCI(text, sub) ==
    \E i \in 0..Len(text) :
        /\ i + Len(sub) <= Len(text)
        /\ \A k \in 1..Len(sub) : lowerChar(text[i + k]) = lowerChar(sub[k])

\* the first index of entries whose filename contains sub, 0 if none
FirstContaining(entries, sub) ==
    LET ix == { k \in 1..Len(entries) : Contains(entries[k].name, sub) }
    IN  IF ix = {} THEN 0 ELSE CHOOSE k \in ix : \A m \in ix : k <= m

\* the directories of the store root whose stat and listing succeed
Categories ==
    { i \in 1..Len(store.entries) : store.entries[i].kind = "dir" }

\* every stat and every listing of a root-wide enumeration succeeds
EnumerationSucceeds ==
    /\ store.listable
    /\ \A i \in 1..Len(store.entries) : store.entries[i].kind \in {"dir", "file"}

\* the items of the store: <<root index, file index>>
Items ==
    { <<i, k>> \in Categories \X (1..MaxEntries + 1) :
        /\ k <= Len(store.entries[i].files)
        /\ IsItem(store.entries[i].files[k].name) }

ItemCategory(it) == store.entries[it[1]].name
ItemFile(it) == store.entries[it[1]].files[it[2]]

\* the <<category, name>> pairs of the readable items whose content contains query
MatchingPairs(query) ==
    { [category |-> ItemCategory(it), pattern |-> NameOf(ItemFile(it).name)] :
        it \in { x \in Items : /\ ItemFile(x).readable
                               /\ ContainsCI(ItemFile(x).content, query) } }

Range(seq) == { seq[i] : i \in 1..Len(seq) }

GetPatternCalled == last.op = "get-pattern"
ListResourcesCalled == last.op = "resources/list"
SearchCalled == last.op = "search-patterns"

----------------------------------------------------------------------------
(* get-pattern *)

\* C1: for every category C and item I of C, get-pattern(C, I.name) returns
\* the content of I, whatever the enumeration order of C. Stated at its most
\* favourable: in a category whose entries can all be read, for an item whose
\* name no other entry of C has.
C1_ExactMatchReturnsItem ==
    GetPatternCalled =>
        LET entries == EntriesOf(last.args[1])
        IN  \A k \in 1..Len(entries) :
                ( /\ IsItem(entries[k].name)
                  /\ NameOf(entries[k].name) = last.args[2]
                  /\ \A m \in 1..Len(entries) : entries[m].readable
                  /\ \A m \in 1..Len(entries) :
                        m # k => NameOf(entries[m].name) # last.args[2] )
                => /\ last.result.status = "return"
                   /\ last.result.outcome = "content"
                   /\ last.result.text = entries[k].content

\* the case of C2: the category is listed, no entry has the pattern as its
\* name, and some entry's filename contains the pattern
C2_Case ==
    /\ GetPatternCalled
    /\ IsCategory(last.args[1])
    /\ \A k \in 1..Len(EntriesOf(last.args[1])) :
          NameOf(EntriesOf(last.args[1])[k].name) # last.args[2]
    /\ FirstContaining(EntriesOf(last.args[1]), last.args[2]) # 0

RECURSIVE ItemNames(_)
ItemNames(entries) ==
    IF entries = <<>> THEN <<>>
    ELSE IF IsItem(Head(entries).name)
    THEN <<NameOf(Head(entries).name)>> \o ItemNames(Tail(entries))
    ELSE ItemNames(Tail(entries))

\* C3: when the category exists and no entry matches the pattern by name or by
\* substring, get-pattern returns (does not throw) a not-found outcome whose
\* available names are the names of the items of the category, .md and .json
\* files only, and no other names.
C3_NotFoundListsItems ==
    ( /\ GetPatternCalled
      /\ IsCategory(last.args[1])
      /\ \A k \in 1..Len(EntriesOf(last.args[1])) :
            /\ NameOf(EntriesOf(last.args[1])[k].name) # last.args[2]
            /\ ~Contains(EntriesOf(last.args[1])[k].name, last.args[2]) )
    => /\ last.result.status = "return"
       /\ last.result.outcome = "not found in category"
       /\ last.result.available = ItemNames(EntriesOf(last.args[1]))

\* the store has no directory of that name: no root entry, or a plain file
NoSuchCategory(category) ==
    RootIndex(category) = 0 \/ store.entries[RootIndex(category)].kind = "file"

\* C4: get-pattern on a category the store does not have throws, and so
\* returns neither a content nor a not-found outcome; on a category that is
\* there and has no matching entry it returns the not-found outcome, so the
\* caller can tell the two apart.
C4_CategoryNotFound ==
    GetPatternCalled =>
        /\ NoSuchCategory(last.args[1]) => last.result.status = "throw"
        /\ ( /\ IsCategory(last.args[1])
             /\ \A k \in 1..Len(EntriesOf(last.args[1])) :
                   /\ NameOf(EntriesOf(last.args[1])[k].name) # last.args[2]
                   /\ ~Contains(EntriesOf(last.args[1])[k].name, last.args[2]) )
           => /\ last.result.status = "return"
              /\ last.result.outcome = "not found in category"

\* get-pattern was called on a category that is not in a non-empty store, and threw
C4_Witness ==
    /\ GetPatternCalled
    /\ RootIndex(last.args[1]) = 0
    /\ Categories # {}
    /\ last.result.status = "throw"

----------------------------------------------------------------------------
(* search-patterns *)

\* every read a search performs succeeds
AllReadsSucceed ==
    /\ EnumerationSucceeds
    /\ \A it \in Items : ItemFile(it).readable

\* C5: when every read succeeds, search returns exactly the <<category, name>>
\* pairs of the items whose content contains the query without regard to case;
\* when there is none it returns the empty result, not an error.
C5_SearchExact ==
    (SearchCalled /\ AllReadsSucceed) =>
        /\ last.result.status = "return"
        /\ Range(last.result.hits) = MatchingPairs(last.args[1])
        /\ MatchingPairs(last.args[1]) = {}
              => /\ last.result.outcome = "no patterns found"
                 /\ last.result.hits = <<>>

\* a search over readable items of which one matches only when case is
\* ignored and another does not match at all
C5_Witness ==
    /\ SearchCalled
    /\ AllReadsSucceed
    /\ \E it \in Items :
          /\ ContainsCI(ItemFile(it).content, last.args[1])
          /\ ~Contains(ItemFile(it).content, last.args[1])
    /\ \E it \in Items : ~ContainsCI(ItemFile(it).content, last.args[1])
    /\ last.result.outcome = "patterns containing"

\* C6: a failing read of one item does not fail the search: with the root and
\* every category enumerated, the call returns the hits of every item that
\* can be read.
C6_SearchSkipsUnreadable ==
    (SearchCalled /\ EnumerationSucceeds) =>
        /\ last.result.status = "return"
        /\ Range(last.result.hits) = MatchingPairs(last.args[1])

----------------------------------------------------------------------------
(* resources/list *)

\* the Resource of the item file of category
ResourceFor(category, file) ==
    [uri |-> Scheme \o category \o <<"/">> \o file,
     name |-> category \o <<"/">> \o file,
     description |-> DescrPrefix \o category \o <<" ", "-", " ">> \o NameOf(file),
     mimeType |-> IF \E k \in 0..Len(file) : SubSeq(file, 1, k) \o DotMd = file
                  THEN "text/markdown" ELSE "application/json"]

\* C7: with the root listed, the resources of every category that can be
\* enumerated are in the list, also when another category, before or after
\* it, fails to enumerate.
C7_ListSkipsFailingCategory ==
    (ListResourcesCalled /\ store.listable) =>
        \A it \in Items :
            \E i \in 1..Len(last.result.resources) :
                last.result.resources[i].name
                    = ItemCategory(it) \o <<"/">> \o ItemFile(it).name

\* C8: resources/list returns a list and never throws, whatever fails
\* during the enumeration.
C8_ListNeverFails ==
    ListResourcesCalled =>
        /\ last.result.status = "return"
        /\ Len(last.result.resources) <= Cardinality(Items)

\* a listing during which an enumeration failed after resources were collected
C8_Witness ==
    /\ ListResourcesCalled
    /\ \E i \in 1..Len(store.entries) : store.entries[i].kind \in {"broken", "locked"}
    /\ Len(last.result.resources) > 0
    /\ last.result.status = "return"

\* C9: no resource of the list has a filename whose extension is not .md or
\* .json.
C9_OnlyRecognizedExtensions ==
    ListResourcesCalled =>
        \A i \in 1..Len(last.result.resources) :
            /\ IsItem(last.result.resources[i].name)
            /\ IsItem(last.result.resources[i].uri)

\* a listing of a category that holds an item and an entry of another extension
C9_Witness ==
    /\ ListResourcesCalled
    /\ \E i \in Categories :
          /\ \E k \in 1..Len(store.entries[i].files) :
                ~IsItem(store.entries[i].files[k].name)
          /\ \E k \in 1..Len(store.entries[i].files) :
                /\ IsItem(store.entries[i].files[k].name)
                /\ \E r \in 1..Len(last.result.resources) :
                      last.result.resources[r].name
                          = store.entries[i].name \o <<"/">> \o store.entries[i].files[k].name

\* C10: when the enumeration succeeds the list holds exactly one Resource per
\* item of every directory category, with the uri, name, description and
\* mimeType of that item.
C10_ResourceProjection ==
    (ListResourcesCalled /\ EnumerationSucceeds) =>
        /\ Len(last.result.resources) = Cardinality(Items)
        /\ \A it \in Items :
              Cardinality({ i \in 1..Len(last.result.resources) :
                              last.result.resources[i]
                                  = ResourceFor(ItemCategory(it), ItemFile(it).name) }) = 1

\* a complete listing that holds a markdown and a json resource of two categories
C10_Witness ==
    /\ ListResourcesCalled
    /\ EnumerationSucceeds
    /\ \E i, j \in 1..Len(last.result.resources) :
          /\ last.result.resources[i].mimeType = "text/markdown"
          /\ last.result.resources[j].mimeType = "application/json"
          /\ \E a, b \in Items :
                /\ a[1] # b[1]
                /\ last.result.resources[i].name = ItemCategory(a) \o <<"/">> \o ItemFile(a).name
                /\ last.result.resources[j].name = ItemCategory(b) \o <<"/">> \o ItemFile(b).name

----------------------------------------------------------------------------
(* resources/read and the propagation of errors *)

ReadResourceCalled == last.op = "resources/read"

\* uri starts with 'devcontext://'
HasScheme(uri) ==
    /\ Len(uri) >= Len(Scheme)
    /\ \A k \in 1..Len(Scheme) : uri[k] = Scheme[k]

\* uri names the file of that name in the category at root index i
NamesFile(uri, i, name) == uri = Scheme \o store.entries[i].name \o <<"/">> \o name

\* the files of the store that uri names: <<root index, file index>>
TargetsOf(uri) ==
    { <<i, k>> \in Categories \X (1..MaxEntries + 1) :
        /\ k <= Len(store.entries[i].files)
        /\ NamesFile(uri, i, store.entries[i].files[k].name) }

\* uri names a plain file of the store root
NamesRootFile(uri) ==
    \E i \in 1..Len(store.entries) :
        store.entries[i].kind = "file" /\ uri = Scheme \o store.entries[i].name

\* uri names category/file where the store has no such category, or the
\* category is there and has no such file
TargetAbsent(uri) ==
    /\ HasScheme(uri)
    /\ TargetsOf(uri) = {}
    /\ \E c \in CategoryArgs, f \in FileNames :
          /\ uri = Scheme \o c \o <<"/">> \o f
          /\ RootIndex(c) = 0 \/ store.entries[RootIndex(c)].kind \in {"dir", "broken"}

\* uri names a file that is there and cannot be read
TargetUnreadable(uri) == \E t \in TargetsOf(uri) : ~ItemFile(t).readable

\* C14: a resources/read whose uri does not start with 'devcontext://' throws
\* Invalid URI and reads nothing of the store.
C14_InvalidUriRejected ==
    (ReadResourceCalled /\ ~HasScheme(last.args[1])) =>
        /\ last.result.status = "throw"
        /\ last.result.error = "Invalid URI"
        /\ last.result.accessed = <<>>

\* a uri without the prefix whose path is a readable file of the store was rejected
C14_Witness ==
    /\ ReadResourceCalled
    /\ ~HasScheme(last.args[1])
    /\ \E t \in Items :
          /\ ItemFile(t).readable
          /\ last.args[1] = ItemCategory(t) \o <<"/">> \o ItemFile(t).name
    /\ last.result.status = "throw"

\* the first index of entries that get-pattern's search accepts: the name is
\* the pattern or the filename contains it; 0 if none
FirstMatching(entries, pattern) ==
    LET ix == { k \in 1..Len(entries) :
                  \/ NameOf(entries[k].name) = pattern
                  \/ Contains(entries[k].name, pattern) }
    IN  IF ix = {} THEN 0 ELSE CHOOSE k \in ix : \A m \in ix : k <= m

\* the listing or the read that get-pattern performs fails
GetPatternReadFails ==
    \/ ~IsCategory(last.args[1])
    \/ LET entries == EntriesOf(last.args[1])
           m == FirstMatching(entries, last.args[2])
       IN  m # 0 /\ ~entries[m].readable

\* uri has a '..' segment
HasDotDot(uri) == Contains(uri, <<"/", ".", ".", "/">>)

\* the read that resources/read performs fails
ReadResourceReadFails ==
    /\ HasScheme(last.args[1])
    /\ ~HasDotDot(last.args[1])
    /\ ~NamesRootFile(last.args[1])
    /\ \A t \in TargetsOf(last.args[1]) : ~ItemFile(t).readable

\* C15: when the listing or the read that get-pattern or resources/read
\* performs fails, the call throws: it returns no empty or substitute result.
\* What resources/read returns for a uri without '..' segments is the content
\* of the file the uri names.
C15_SingleItemErrorsPropagate ==
    /\ (GetPatternCalled /\ GetPatternReadFails) => last.result.status = "throw"
    /\ (ReadResourceCalled /\ ReadResourceReadFails) => last.result.status = "throw"
    /\ ( /\ ReadResourceCalled /\ last.result.status = "return"
         /\ ~NamesRootFile(last.args[1]) /\ ~HasDotDot(last.args[1]) )
          => \E t \in TargetsOf(last.args[1]) :
                /\ ItemFile(t).readable
                /\ last.result.contents[1].text = ItemFile(t).content

\* a resources/read of a file that is there and cannot be read threw
C15_Witness ==
    /\ ReadResourceCalled
    /\ TargetUnreadable(last.args[1])
    /\ last.result.status = "throw"

----------------------------------------------------------------------------
(* get-project-template: the section of the template document *)

GetProjectTemplateCalled == last.op = "get-project-template"

\* the readable files naming/project-structure.md of the store
TemplateItems ==
    { t \in Items :
        /\ ItemCategory(t) = <<"n", "a", "m", "i", "n", "g">>
        /\ ItemFile(t).name = <<"p", "r", "o", "j", "e", "c", "t", "-", "s", "t", "r", "u", "c", "t", "u", "r", "e", ".", "m", "d">>
        /\ ItemFile(t).readable }

\* the template document
TemplateContent == ItemFile(CHOOSE t \in TemplateItems : TRUE).content

\* a call with a stack that has a template, on a store whose document is read
SectionExtracted ==
    /\ GetProjectTemplateCalled
    /\ last.args[1] \in TemplateStacks
    /\ TemplateItems # {}

\* the positions of text at which a line starts
LineStarts(text) == {1} \cup { k + 1 : k \in { j \in 1..Len(text) : text[j] = "\n" } }

\* the position of the last character of the line that starts at position s
LineEnd(text, s) ==
    LET nl == { j \in s..Len(text) : text[j] = "\n" }
    IN  IF nl = {} THEN Len(text) ELSE (CHOOSE j \in nl : \A m \in nl : j <= m) - 1

LineAt(text, s) == SubSeq(text, s, LineEnd(text, s))

\* key with every '-' replaced by a space
Spaced(key) == [i \in 1..Len(key) |-> IF key[i] = "-" THEN " " ELSE key[i]]

\* the lower-case text of line contains key
HasKey(line, key) ==
    \E i \in 0..Len(line) :
        /\ i + Len(key) <= Len(line)
        /\ \A k \in 1..Len(key) : lowerChar(line[i + k]) = key[k]

\* line matches key: as it is written, or with spaces for its hyphens
LineMatches(line, key) == HasKey(line, key) \/ HasKey(line, Spaced(key))

\* the starts of the lines of text that match key
MatchingStarts(text, key) ==
    { s \in LineStarts(text) : LineMatches(LineAt(text, s), key) }

Least(S) == CHOOSE x \in S : \A y \in S : x <= y

IsHeading(line) ==
    Len(line) >= 3 /\ line[1] = "#" /\ line[2] = "#" /\ line[3] = " "

\* the starts of the lines after position s that begin another section
BoundaryStarts(text, key, s) ==
    { b \in LineStarts(text) :
        /\ b > s
        /\ IsHeading(LineAt(text, b))
        /\ ~LineMatches(LineAt(text, b), key) }

\* the section of text for key: from the first matching line to the line
\* before the next boundary, or to the end of text
SectionOf(text, key) ==
    LET s == Least(MatchingStarts(text, key))
        bs == BoundaryStarts(text, key, s)
    IN  IF bs = {} THEN SubSeq(text, s, Len(text))
        ELSE SubSeq(text, s, Least(bs) - 2)

\* C11: when no line of the document matches the key, get-project-template
\* returns the document unchanged, and does not fail.
C11_NoMatchReturnsDocument ==
    (SectionExtracted /\ MatchingStarts(TemplateContent, last.args[1]) = {}) =>
        /\ last.result.status = "return"
        /\ last.result.text = TemplateContent

\* a document of several lines with a heading, none matching, was returned whole
C11_Witness ==
    /\ SectionExtracted
    /\ MatchingStarts(TemplateContent, last.args[1]) = {}
    /\ Cardinality(LineStarts(TemplateContent)) >= 2
    /\ \E s \in LineStarts(TemplateContent) : IsHeading(LineAt(TemplateContent, s))
    /\ last.result.status = "return"
    /\ last.result.text = TemplateContent

\* C12: when a line matches the key, the result is the document from the first
\* matching line up to, not including, the first later line that starts with
\* '## ' and does not contain the key (as written or with spaces for hyphens),
\* or up to the end of the document if there is no such line.
C12_SectionBoundary ==
    (SectionExtracted /\ MatchingStarts(TemplateContent, last.args[1]) # {}) =>
        /\ last.result.status = "return"
        /\ last.result.text = SectionOf(TemplateContent, last.args[1])

\* C13: a line that contains the key as it is written, hyphens included, is
\* a match, as is a line that contains it with spaces for the hyphens: the
\* result starts with the first such line of the document.
C13_HyphenKeyMatchesEitherWay ==
    (SectionExtracted /\ MatchingStarts(TemplateContent, last.args[1]) # {}) =>
        LET s == Least(MatchingStarts(TemplateContent, last.args[1]))
            n == Len(last.result.text)
        IN  /\ last.result.status = "return"
            /\ n >= Len(LineAt(TemplateContent, s))
            /\ s + n - 1 <= Len(TemplateContent)
            /\ last.result.text = SubSeq(TemplateContent, s, s + n - 1)

----------------------------------------------------------------------------
(* list-patterns and the catalog *)

ListPatternsCalled == last.op = "list-patterns"

\* the resources that resources/list returns on the store for category, in
\* the order of the list
CatalogOf(category) ==
    LET InCategory(r) ==
            /\ Len(r.name) > Len(category)
            /\ SubSeq(r.name, 1, Len(category) + 1) = category \o <<"/">>
    IN  SelectSeq(listResources(store).resources, InCategory)

\* the filename without extension of each resource of category
CatalogNames(category) ==
    LET rs == CatalogOf(category)
    IN  [i \in 1..Len(rs) |->
            NameOf(SubSeq(rs[i].name, Len(category) + 2, Len(rs[i].name)))]

\* C17: for a directory category of a store whose root can be listed,
\* list-patterns returns, in the same order, the filenames without extension
\* of exactly the resources that resources/list returns for that category.
C17_ListPatternsIsCatalogOfCategory ==
    (ListPatternsCalled /\ store.listable /\ IsCategory(last.args[1])) =>
        /\ last.result.status = "return"
        /\ last.result.patterns = CatalogNames(last.args[1])

----------------------------------------------------------------------------
(* Calls in flight at once, and the store across calls *)

\* the result of the call when it runs alone on the store
RunAlone(op, args) ==
    CASE op = "resources/list" -> listResources(store)
      [] op = "resources/read" -> readResource(store, args[1])
      [] op = "get-pattern" -> getPattern(store, args[1], args[2])
      [] op = "list-patterns" -> listPatterns(store, args[1])
      [] op = "search-patterns" -> searchPatterns(store, args[1])
      [] op = "get-project-template" -> getProjectTemplate(store, args[1])

Settled(slot) == calls[slot].pc = "done"

\* C18: on the unchanged store, get-pattern calls with the same arguments
\* return identical results, whatever calls ran between or beside them.
C18_GetPatternRepeatable ==
    \A s \in Slots, t \in Slots :
        ( /\ Settled(s) /\ Settled(t)
          /\ calls[s].op = "get-pattern" /\ calls[t].op = "get-pattern"
          /\ calls[s].args = calls[t].args )
            => calls[s].result = calls[t].result

\* two get-pattern calls with the same arguments both returned the content
\* of an item of a category that holds another item
C18_Witness ==
    \E s \in Slots, t \in Slots :
        /\ s # t
        /\ Settled(s) /\ Settled(t)
        /\ calls[s].op = "get-pattern" /\ calls[t].op = "get-pattern"
        /\ calls[s].args = calls[t].args
        /\ calls[s].result.status = "return"
        /\ calls[s].result.outcome = "content"
        /\ Len(EntriesOf(calls[s].args[1])) >= 2

\* C19: a call whose steps interleave with those of another call in flight
\* returns what it returns when run alone on the same store.
C19_InterleavedCallsAsIfAlone ==
    \A s \in Slots :
        Settled(s) => calls[s].result = RunAlone(calls[s].op, calls[s].args)

\* a search that found items is settled while a resources/list that has
\* already pushed resources is suspended at an await
C19_Witness ==
    \E s \in Slots, t \in Slots :
        /\ s # t
        /\ Settled(s)
        /\ calls[s].op = "search-patterns"
        /\ calls[s].result.status = "return"
        /\ Len(calls[s].result.hits) >= 1
        /\ Suspended(t, "resources/list")
        /\ Len(calls[t].acc) >= 1

\* C20: no call, whether it returns or throws, changes the store or
\* contextsPath.
C20_ReadOnly == [][store' = store /\ contextsPath' = contextsPath]_vars

\* a call on a store with an item has thrown
C20_Witness ==
    /\ last.op # "none"
    /\ last.result.status = "throw"
    /\ Items # {}
    /\ ~store.listable

----------------------------------------------------------------------------
(* get-project-template and the template types of the README *)

\* C23: called with a template type that the README documents, on a store
\* whose template document is read, get-project-template returns a text and
\* does not throw.
C23_ReadmeTemplateTypesAccepted ==
    ( /\ GetProjectTemplateCalled
      /\ last.args[1] \in ReadmeTemplateTypes
      /\ TemplateItems # {} )
        => last.result.status = "return"

----------------------------------------------------------------------------
(* search-patterns: the order of the hits *)

\* the readable items whose content contains query without regard to case
MatchingItems(query) ==
    { it \in Items : ItemFile(it).readable /\ ContainsCI(ItemFile(it).content, query) }

\* item a is enumerated before item b: an earlier category of the root, or
\* the same category and an earlier entry of it
EnumeratedBefore(a, b) == a[1] < b[1] \/ (a[1] = b[1] /\ a[2] < b[2])

\* C24: the hits of a search are in nested enumeration order: categories in
\* the order of the root, and the items of one category in its own order.
C24_SearchHitsInEnumerationOrder ==
    (SearchCalled /\ last.result.status = "return") =>
        LET hits == last.result.hits
        IN  \E f \in [1..Len(hits) -> MatchingItems(last.args[1])] :
                /\ \A i \in 1..Len(hits) :
                      /\ hits[i].category = ItemCategory(f[i])
                      /\ hits[i].pattern = NameOf(ItemFile(f[i]).name)
                /\ \A i \in 1..Len(hits), j \in 1..Len(hits) :
                      i < j => EnumeratedBefore(f[i], f[j])

\* a search returned hits of two categories
C24_Witness ==
    /\ SearchCalled
    /\ last.result.status = "return"
    /\ Len(last.result.hits) >= 2
    /\ last.result.hits[1].category # last.result.hits[2].category

----------------------------------------------------------------------------
(* get-project-template: the first line of the section *)

\* C25: when a line matches the key as the handler tests it and the result
\* is a proper part of the document, the first line of the result is a
\* heading, not a line of another kind that contains the key.
C25_SectionStartsAtHeading ==
    ( /\ SectionExtracted
      /\ last.result.status = "return"
      /\ last.result.text # TemplateContent
      /\ \E s \in LineStarts(TemplateContent) :
            HasKey(LineAt(TemplateContent, s), Spaced(last.args[1])) )
        => /\ IsHeading(LineAt(last.result.text, 1))
           /\ HasKey(LineAt(last.result.text, 1), Spaced(last.args[1]))

----------------------------------------------------------------------------
(* get-pattern and the recognized extensions *)

\* C26: a content that get-pattern returns is the content of an entry of the
\* category whose extension is .md or .json.
C26_GetPatternResolvesItemsOnly ==
    ( /\ GetPatternCalled
      /\ last.result.status = "return"
      /\ last.result.outcome = "content" )
        => \E k \in 1..Len(EntriesOf(last.args[1])) :
              /\ IsItem(EntriesOf(last.args[1])[k].name)
              /\ EntriesOf(last.args[1])[k].readable
              /\ EntriesOf(last.args[1])[k].content = last.result.text

----------------------------------------------------------------------------
(* resources/list, then resources/read *)

\* the resources that resources/list returns on the store
Catalog == Range(listResources(store).resources)

\* the readable files of the store that resource r stands for
FilesOf(r) ==
    { t \in Items :
        /\ ItemFile(t).readable
        /\ r.name = ItemCategory(t) \o <<"/">> \o ItemFile(t).name }

\* C28: a resources/read of the uri of a resource that resources/list returns
\* for a readable file returns one content entry: the uri, the content of
\* the file, and the mimeType of the resource.
C28_ListThenRead ==
    ReadResourceCalled =>
        \A r \in Catalog :
            (r.uri = last.args[1] /\ FilesOf(r) # {}) =>
                /\ last.result.status = "return"
                /\ Len(last.result.contents) = 1
                /\ last.result.contents[1].uri = r.uri
                /\ last.result.contents[1].mimeType = r.mimeType
                /\ \E t \in FilesOf(r) : last.result.contents[1].text = ItemFile(t).content

\* the uri of a listed .json resource of the second category was read
C28_Witness ==
    /\ ReadResourceCalled
    /\ \E r \in Catalog :
          /\ r.uri = last.args[1]
          /\ FilesOf(r) # {}
          /\ r.mimeType = "application/json"
          /\ \E t \in FilesOf(r) : t[1] >= 2
    /\ last.result.status = "return"

----------------------------------------------------------------------------
(* get-project-template: the extraction applied to its own result *)

\* C29: the extraction applied to what get-project-template returned gives
\* the same text again, both when a line matched and when the whole
\* document was returned.
C29_ExtractSectionIdempotent ==
    (SectionExtracted /\ last.result.status = "return") =>
        extractSection(last.result.text, last.args[1]) = last.result.text

\* a proper part of a document of three lines was returned, and it holds a
\* second line that contains the key
C29_Witness ==
    /\ SectionExtracted
    /\ last.result.status = "return"
    /\ last.result.text # TemplateContent
    /\ Cardinality(LineStarts(TemplateContent)) >= 3
    /\ Cardinality(MatchingStarts(last.result.text, last.args[1])) >= 2

\* the whole document was returned because no line matched
C29_WitnessWholeDocument ==
    /\ SectionExtracted
    /\ last.result.status = "return"
    /\ last.result.text = TemplateContent
    /\ MatchingStarts(TemplateContent, last.args[1]) = {}
    /\ Cardinality(LineStarts(TemplateContent)) >= 2

----------------------------------------------------------------------------
(* Root entries that are not directories *)

\* the plain files of the store root
NonDirectories == { i \in 1..Len(store.entries) : store.entries[i].kind = "file" }

\* text begins with the name of a plain file of the root, followed by '/'
UnderNonDirectory(text) ==
    \E n \in NonDirectories :
        LET prefix == store.entries[n].name \o <<"/">>
        IN  Len(text) >= Len(prefix) /\ SubSeq(text, 1, Len(prefix)) = prefix

\* C30: resources/list and search-patterns pass over the root entries that
\* are not directories without failing: the enumeration goes on to the
\* entries after them, and no resource and no hit has such an entry as its
\* category.
C30_NonDirectoriesSkipped ==
    /\ ListResourcesCalled =>
          /\ \A i \in 1..Len(last.result.resources) :
                ~UnderNonDirectory(last.result.resources[i].name)
          /\ EnumerationSucceeds =>
                \A it \in Items :
                    \E i \in 1..Len(last.result.resources) :
                        last.result.resources[i].name
                            = ItemCategory(it) \o <<"/">> \o ItemFile(it).name
    /\ SearchCalled =>
          /\ last.result.status = "return" =>
                \A i \in 1..Len(last.result.hits) :
                    \A n \in NonDirectories :
                        last.result.hits[i].category # store.entries[n].name
          /\ AllReadsSucceed => last.result.status = "return"

\* resources/list returned the item of a directory that the root lists after
\* a plain file
C30_Witness ==
    /\ ListResourcesCalled
    /\ EnumerationSucceeds
    /\ \E n \in NonDirectories, it \in Items : n < it[1]
    /\ Len(last.result.resources) >= 1

----------------------------------------------------------------------------
(* Paths and the store root *)

\* a path relative to contextsPath that lies inside it
InsideStore(path) == path = <<>> \/ path[1] # <<".", ".">>

\* C27: every path that a resources/read of a uri with the prefix reads lies
\* inside the contexts directory, and a content it returns is the content of
\* a file of the store.
C27_ReadsStayInsideStore ==
    (ReadResourceCalled /\ HasScheme(last.args[1])) =>
        /\ \A k \in 1..Len(last.result.accessed) : InsideStore(last.result.accessed[k])
        /\ last.result.status = "return" =>
              \/ NamesRootFile(last.args[1])
              \/ \E it \in Items : last.result.contents[1].text = ItemFile(it).content

----------------------------------------------------------------------------
(* Termination of the calls *)

\* the entries of the store: the entries of the root and the files of its
\* directories
RECURSIVE CountFiles(_)
CountFiles(entries) ==
    IF entries = <<>> THEN 0
    ELSE Len(Head(entries).files) + CountFiles(Tail(entries))

\* one listing of the root, a stat and a listing for each root entry, and a
\* read for each file
AccessBound == 1 + 2 * Len(store.entries) + CountFiles(store.entries)

\* C21: a call in flight is eventually settled, with a result or an error,
\* and the number of its accesses to the store never exceeds the bound that
\* the entries of the store give.
C21_CallsTerminate ==
    /\ [](\A s \in Slots : calls[s].accesses <= AccessBound)
    /\ \A s \in Slots : (calls[s].pc # "idle") ~> Settled(s)

\* a search over two directories has settled after as many accesses as the
\* bound allows
C21_Witness ==
    \E s \in Slots :
        /\ Settled(s)
        /\ calls[s].op = "search-patterns"
        /\ calls[s].accesses = AccessBound
        /\ Cardinality(Categories) >= 2
        /\ Items # {}

----------------------------------------------------------------------------
(* Calls on a store that is edited between them *)

\* the files of the category of a get-pattern call whose filename contains
\* its pattern, in the store as it is now
NamedNow ==
    { k \in 1..Len(EntriesOf(last.args[1])) :
        Contains(EntriesOf(last.args[1])[k].name, last.args[2]) }

\* C22: on a store whose files are added, removed and rewritten between the
\* calls, what a call returns is of the store as it is at that call. The
\* text of get-pattern is the content that a file of the category has now,
\* and get-pattern reports not found exactly when no file of the category is
\* named by the pattern now; the resources of resources/list are the items
\* the store has now, one each; the text of resources/read is the content
\* that the file has now.
C22_ResultsOfCurrentStore ==
    /\ ( /\ GetPatternCalled /\ last.result.status = "return"
         /\ last.result.outcome = "content" )
          => \E k \in NamedNow :
                /\ EntriesOf(last.args[1])[k].readable
                /\ EntriesOf(last.args[1])[k].content = last.result.text
    /\ (GetPatternCalled /\ IsCategory(last.args[1]))
          => ( ( /\ last.result.status = "return"
                 /\ last.result.outcome = "not found in category" )
               <=> NamedNow = {} )
    /\ (ListResourcesCalled /\ EnumerationSucceeds)
          => /\ Len(last.result.resources) = Cardinality(Items)
             /\ \A it \in Items :
                   \E i \in 1..Len(last.result.resources) :
                       last.result.resources[i]
                           = ResourceFor(ItemCategory(it), ItemFile(it).name)
    /\ ( /\ ReadResourceCalled /\ last.result.status = "return"
         /\ ~NamesRootFile(last.args[1]) /\ ~HasDotDot(last.args[1]) )
          => \E t \in TargetsOf(last.args[1]) :
                /\ ItemFile(t).readable
                /\ last.result.contents[1].text = ItemFile(t).content

\* the same get-pattern call was answered twice with the content of a file,
\* and the second answer differs from the first: the file was rewritten or
\* another file added between the two calls
C22_Witness ==
    /\ GetPatternCalled
    /\ previous.op = last.op
    /\ previous.args = last.args
    /\ previous.result.status = "return"
    /\ previous.result.outcome = "content"
    /\ last.result.status = "return"
    /\ last.result.outcome = "content"
    /\ last.result.text # previous.result.text

====
